---- MODULE Spec2Model ----
(***************************************************************************)
(* Model of the globros scoring engine (scoring_engine.py, config.py).     *)
(*                                                                         *)
(* Numbers.  The engine computes with Python floats.  The model uses       *)
(* fixed-point integers: a score s is the integer 1000*s ("milli"), a      *)
(* weight w is 10*w ("tenths"), so a weighted score and a total are in     *)
(* units of 1/10000.  abs(median) ** 0.4 is rounded to the nearest milli   *)
(* and a quotient is truncated towards zero.                               *)
(*                                                                         *)
(* Values.  A per-player slot is None, a number, or a non-numeric string   *)
(* (such as "abc"); all three are records of the same shape so that they   *)
(* can be compared.                                                        *)
(*                                                                         *)
(* Exceptions.  A function that can raise returns [exc, value]; exc = ""   *)
(* means it returned value, otherwise exc names the exception raised.      *)
(***************************************************************************)
EXTENDS Integers, Sequences, FiniteSets, TLC

VARIABLES
    scores_data,  \* calculate_daily_results: the submission, a sequence of
                  \* [game, raw_scores] in dict iteration order
    idx,          \* position of the for-loop over scores_data.items()
    results,      \* the local dict `results` of calculate_daily_results
    pc,           \* "loop" | "done" | "raised" | "off"
    exc,          \* the exception that left calculate_daily_results, or ""
    raw_in,       \* calculate_normalized_score: argument raw_scores
    game_in,      \* calculate_normalized_score: argument game
    norm_out,     \* calculate_normalized_score: the list returned
    npc,          \* "call" | "returned" | "raised" | "off"
    nexc,         \* the exception that left calculate_normalized_score, or ""
    fn,           \* the other function called, "" when none is
    fn_in,        \* its arguments
    fn_out,       \* the value it returned
    fpc,          \* "call" | "returned" | "off"
    calls,        \* concurrent invocations of calculate_daily_results: the
                  \* locals [scores_data, idx, results, pc, exc] of each
    config,       \* the module globals PLAYERS and GAMES of config.py
    csv,          \* the rows of CSV_FILE_PATH, in file order
    placements,   \* the rows of PLACEMENTS_CSV_PATH, in file order
    history,      \* the series of calls of data_manager.py made so far,
                  \* oldest first
    page          \* the daily submission page: widgets, session state and
                  \* what the last run of the script rendered

fnvars == <<fn, fn_in, fn_out, fpc>>

appvars == <<calls, config, csv, placements, history, page>>

vars == <<scores_data, idx, results, pc, exc, raw_in, game_in, norm_out, npc,
          nexc, fn, fn_in, fn_out, fpc, calls, config, csv, placements,
          history, page>>

---------------------------------------------------------------------------
(* Bounds of the model *)

\* raw scores submitted for a day are 1..MaxScore
MaxScore == 2
\* raw scores handed to the normalizer alone are -NormMaxScore..NormMaxScore
NormMaxScore == 2
\* the normalizer alone is called with lists of at most NormMaxLen entries
NormMaxLen == 4
\* failed guesses are 0, 125, 250, ... miles off, up to 125 * MaxFar miles
MaxFar == 100
\* the weighting stage alone is called with lists of at most MaxWeightLen
\* entries, the present ones -MaxQuarters/4..MaxQuarters/4 in steps of 0.25
MaxWeightLen == 3
MaxQuarters == 3
\* on a single-game day the raw scores go up to MaxSingleScore
MaxSingleScore == 6
\* at most MaxOps calls of data_manager.py are made in a series
MaxOps == 3
\* the days whose placements are saved have Worldle scores 1..MaxPlaceScore
MaxPlaceScore == 3
\* on the page the Worldle scores entered are 1..MaxPageScore
MaxPageScore == 2
\* of two concurrent invocations the first gets a Worldle list with at
\* most MaxConPresent players present
MaxConPresent == 2
\* the values validated lie within MaxBeyond of an end of a range
MaxBeyond == 2

---------------------------------------------------------------------------
(* config.py *)

PLAYERS == <<"Anthony", "Cole", "Joseph", "Katherine">>

\* weight in tenths
GAMES ==
    [ Worldle       |-> [type |-> "standard", weight |-> 12],
      Globle        |-> [type |-> "standard", weight |-> 8],
      Countryle     |-> [type |-> "standard", weight |-> 8],
      Travle        |-> [type |-> "standard", weight |-> 9],
      Geogrid       |-> [type |-> "standard", weight |-> 8],
      NoBordle      |-> [type |-> "special",  weight |-> 11],
      ImpossiBordle |-> [type |-> "special",  weight |-> 9] ]

Roster == 1..Len(PLAYERS)

---------------------------------------------------------------------------
(* Values *)

None == [kind |-> "None", v |-> 0]
Str  == [kind |-> "str",  v |-> 0]
Num(n) == [kind |-> "num", v |-> n]
Milli(n) == n * 1000

Return(x) == [exc |-> "", value |-> x]
Raise(e)  == [exc |-> e, value |-> <<>>]

Abs(n) == IF n < 0 THEN -n ELSE n

\* a / b for b > 0, truncated towards zero
Quot(a, b) == IF a >= 0 THEN a \div b ELSE -((-a) \div b)

\* Pow04Table[h] = 1000 * (h/2) ** 0.4, rounded
Pow04Table ==
    << 758, 1000, 1176, 1320, 1443, 1552, 1651, 1741, 1825, 1904, 1978, 2048,
       2114, 2178, 2239, 2297, 2354, 2408, 2461, 2512, 2561, 2609, 2656, 2702 >>

\* abs(median_score) ** 0.4, for a median that is a multiple of 0.5
Pow04(m) == Pow04Table[Abs(m) \div 500]

HasStr(s) == \E i \in DOMAIN s : s[i] = Str

---------------------------------------------------------------------------
(* scoring_engine.py: calculate_special_score *)

\* the largest r in lo..hi with r * r <= x, given lo * lo <= x
RECURSIVE RootBetween(_, _, _)
RootBetween(x, lo, hi) ==
    IF lo = hi THEN lo
    ELSE LET mid == (lo + hi + 1) \div 2
         IN  IF mid * mid <= x THEN RootBetween(x, mid, hi)
             ELSE RootBetween(x, lo, mid - 1)

\* math.sqrt(distance / 12500) in milli, rounded down: the integer root of
\* 1000 * 1000 * distance / 12500 = 80 * distance
sqrt_ratio(distance) ==
    RootBetween(80 * distance, 0, IF 80 * distance < 46340 THEN 80 * distance ELSE 46340)

\* variant: the measurement is taken for a distance also after a success
special_distance_measurement(correct, measurement) == measurement

\* distance = guesses_or_distance if not correct else 0
special_distance(correct, measurement) == IF ~correct THEN measurement ELSE 0

\* variant: 8 * sqrt(distance / 12500)
penalty_without_offset(distance) == 8 * sqrt_ratio(distance)

\* 8 * (1 + math.sqrt(distance / 12500)), in milli
penalty(distance) == 8 * (1000 + sqrt_ratio(distance))

calculate_special_score(correct, guesses_or_distance, game_type) ==
    IF correct /\ guesses_or_distance <= 6
    THEN Milli(guesses_or_distance)
    ELSE penalty(special_distance(correct, guesses_or_distance))

---------------------------------------------------------------------------
(* scoring_engine.py: calculate_normalized_score *)

\* variant: an absent entry is kept and counts as a score of 0
participating_absent_as_zero(raw_scores) ==
    [i \in DOMAIN raw_scores |->
        IF raw_scores[i] = None THEN Num(0) ELSE raw_scores[i]]

\* [score for score in raw_scores if score is not None]
participating_scores(raw_scores) ==
    SelectSeq(raw_scores, LAMBDA score : score # None)

\* score / 100.0 if game == "Geogrid" else float(score)
actual_score(v, game) == IF game = "Geogrid" THEN v \div 100 ELSE v

\* variant: the middle of the list as given, without sorting it
np_median_unsorted(vals) ==
    LET n == Len(vals)
    IN  IF n % 2 = 1 THEN vals[(n + 1) \div 2]
        ELSE (vals[n \div 2] + vals[n \div 2 + 1]) \div 2

\* np.median of a non-empty list of numbers
np_median(vals) ==
    LET s == SortSeq(vals, LAMBDA a, b : a < b)
        n == Len(s)
    IN  IF n % 2 = 1 THEN s[(n + 1) \div 2]
        ELSE (s[n \div 2] + s[n \div 2 + 1]) \div 2

\* variant: a non-participant gets 0.0 instead of None
normalize_entry_absent_zero(score, game, median_score) ==
    IF score = None \/ score = Str THEN Num(0)
    ELSE LET a == actual_score(score.v, game)
         IN  IF median_score = 0 THEN Num(a)
             ELSE Num(Quot((a - median_score) * 1000, Pow04(median_score)))

\* variant: the denominator carries the sign of the median
normalize_entry_signed_denominator(score, game, median_score) ==
    IF score = None THEN None
    ELSE IF score = Str THEN Num(0)
    ELSE LET a == actual_score(score.v, game)
             q == Quot((a - median_score) * 1000, Pow04(median_score))
         IN  IF median_score = 0 THEN Num(a)
             ELSE IF median_score < 0 THEN Num(0 - q) ELSE Num(q)

\* variant: a median of 0 gives everybody 0.0
normalize_entry_zero_median(score, game, median_score) ==
    IF score = None THEN None
    ELSE IF score = Str THEN Num(0)
    ELSE LET a == actual_score(score.v, game)
         IN  IF median_score = 0 THEN Num(0)
             ELSE Num(Quot((a - median_score) * 1000, Pow04(median_score)))

\* variant: the Geogrid score is rescaled for the median only
normalize_entry_raw_numerator(score, game, median_score) ==
    IF score = None THEN None
    ELSE IF score = Str THEN Num(0)
    ELSE LET a == score.v
         IN  IF median_score = 0 THEN Num(a)
             ELSE Num(Quot((a - median_score) * 1000, Pow04(median_score)))

\* the body of the loop over raw_scores: None stays None; float("abc")
\* (or "abc" / 100.0) raises inside the try and gives 0.0
normalize_entry(score, game, median_score) ==
    IF score = None THEN None
    ELSE IF score = Str THEN Num(0)
    ELSE LET a == actual_score(score.v, game)
         IN  IF median_score = 0 THEN Num(a)
             ELSE Num(Quot((a - median_score) * 1000, Pow04(median_score)))

\* variant: the early return gives 0.0 to everybody
no_participants_zeros(raw_scores) ==
    [i \in DOMAIN raw_scores |-> Num(0)]

\* the early return when nobody participated
no_participants(raw_scores) ==
    [i \in DOMAIN raw_scores |->
        IF raw_scores[i] # None THEN Num(0) ELSE None]

calculate_normalized_score(raw_scores, game) ==
    LET participating == participating_scores(raw_scores)
    IN  IF participating = <<>> THEN Return(no_participants(raw_scores))
        ELSE IF game = "Geogrid" /\ HasStr(participating)
             THEN Raise("TypeError")   \* "abc" / 100.0
        ELSE IF HasStr(participating)
             THEN Raise("ValueError")  \* np.array(["abc", ...], dtype=float)
        ELSE LET scaled == [i \in DOMAIN participating |->
                               actual_score(participating[i].v, game)]
                 median_score == np_median(scaled)
             IN  Return([i \in DOMAIN raw_scores |->
                            normalize_entry(raw_scores[i], game, median_score)])

---------------------------------------------------------------------------
(* scoring_engine.py: calculate_weighted_scores *)

\* variant: the weight of one game is used for every game
calculate_weighted_scores_one_weight(normalized_scores, game) ==
    [i \in DOMAIN normalized_scores |->
        IF normalized_scores[i] # None
        THEN Num(normalized_scores[i].v * GAMES["Worldle"].weight)
        ELSE None]

calculate_weighted_scores(normalized_scores, game) ==
    [i \in DOMAIN normalized_scores |->
        IF normalized_scores[i] # None
        THEN Num(normalized_scores[i].v * GAMES[game].weight)
        ELSE None]

---------------------------------------------------------------------------
(* scoring_engine.py: calculate_daily_results *)

\* the dict `results` as first built; the keys winner, winners and is_tie
\* are set only at the end and hold "", <<>> and FALSE until then
InitResults ==
    [ players               |-> PLAYERS,
      raw_scores            |-> <<>>,
      normalized_unweighted |-> <<>>,
      normalized_weighted   |-> <<>>,
      total_scores          |-> [i \in Roster |-> 0],
      rankings              |-> <<>>,
      winner                |-> "",
      winners               |-> <<>>,
      is_tie                |-> FALSE ]

\* d[key] = value
DictPut(d, key, value) == (key :> value) @@ d

\* variant: the raw scores are stored before the registry is consulted
skip_unknown_after_store(res, game, raw_scores) ==
    [res EXCEPT !.raw_scores = DictPut(@, game, raw_scores)]

\* `if game not in GAMES: continue`
skip_unknown(res, game, raw_scores) == res

\* variant: `=` instead of `+=`
add_totals_assign(total_scores, weighted_scores) ==
    [i \in DOMAIN total_scores |->
        IF weighted_scores[i] # None
        THEN weighted_scores[i].v
        ELSE total_scores[i]]

\* results["total_scores"][i] += weighted_score, for the present ones
add_totals(total_scores, weighted_scores) ==
    [i \in DOMAIN total_scores |->
        IF weighted_scores[i] # None
        THEN total_scores[i] + weighted_scores[i].v
        ELSE total_scores[i]]

\* one pass of the loop body for a game of the registry
process_game(res, game, raw_scores) ==
    LET n == calculate_normalized_score(raw_scores, game)
    IN  IF n.exc # "" THEN Raise(n.exc)
        ELSE LET w == calculate_weighted_scores(n.value, game)
             IN  Return([res EXCEPT
                     !.raw_scores            = DictPut(@, game, raw_scores),
                     !.normalized_unweighted = DictPut(@, game, n.value),
                     !.normalized_weighted   = DictPut(@, game, w),
                     !.total_scores          = add_totals(@, w)])

\* variant: every roster player counts as having played
participated_always(res, i) == TRUE

\* any(results["raw_scores"][game][i] is not None for game in ...)
participated(res, i) ==
    \E game \in DOMAIN res.raw_scores : res.raw_scores[game][i] # None

\* the list of (player, total) of the participating players, roster order
participating_player_totals(res) ==
    LET all == [i \in Roster |->
                   [player |-> PLAYERS[i], total |-> res.total_scores[i],
                    played |-> participated(res, i)]]
        kept == SelectSeq(all, LAMBDA e : e.played)
    IN  [k \in DOMAIN kept |->
            [player |-> kept[k].player, total |-> kept[k].total]]

\* variant: an unstable insertion, placing e before the entries equal to it
RECURSIVE insert_before_equal(_, _)
insert_before_equal(e, s) ==
    IF s = <<>> THEN <<e>>
    ELSE IF Head(s).total >= e.total THEN <<e>> \o s
    ELSE <<Head(s)>> \o insert_before_equal(e, Tail(s))

\* variant: the sort is descending by total
RECURSIVE insert_descending(_, _)
insert_descending(e, s) ==
    IF s = <<>> THEN <<e>>
    ELSE IF Head(s).total < e.total THEN <<e>> \o s
    ELSE <<Head(s)>> \o insert_descending(e, Tail(s))

\* list.sort(key=lambda x: x[1]) is a stable sort, ascending by total:
\* e, which came after the entries of s, goes behind those equal to it
RECURSIVE insert_sorted(_, _)
insert_sorted(e, s) ==
    IF s = <<>> THEN <<e>>
    ELSE IF Head(s).total > e.total THEN <<e>> \o s
    ELSE <<Head(s)>> \o insert_sorted(e, Tail(s))

RECURSIVE sort_by_total(_)
sort_by_total(s) ==
    IF s = <<>> THEN <<>>
    ELSE insert_sorted(s[Len(s)], sort_by_total(SubSeq(s, 1, Len(s) - 1)))

\* variant: only the first of the ranking wins
winners_first_only(rankings) ==
    IF rankings # <<>> THEN <<rankings[1].player>> ELSE <<>>

\* the players of the ranking whose total is the lowest one
winners_of(rankings) ==
    IF rankings # <<>>
    THEN LET lowest_score == rankings[1].total
             tied == SelectSeq(rankings, LAMBDA e : e.total = lowest_score)
         IN  [k \in DOMAIN tied |-> tied[k].player]
    ELSE <<>>

\* everything after the loop: ranking, winners, is_tie, return
rank_and_return(res) ==
    LET rankings == sort_by_total(participating_player_totals(res))
        winners  == winners_of(rankings)
    IN  IF Len(winners) = 1
        THEN Return([res EXCEPT !.rankings = rankings, !.winner = winners[1],
                                !.winners = winners, !.is_tie = FALSE])
        ELSE IF winners = <<>>
        THEN Raise("IndexError")   \* winners[0] of an empty list
        ELSE Return([res EXCEPT !.rankings = rankings, !.winner = winners[1],
                                !.winners = winners, !.is_tie = TRUE])

\* the loop over scores_data.items(), run to its end from `res`
RECURSIVE process_all(_, _)
process_all(res, items) ==
    IF items = <<>> THEN Return(res)
    ELSE LET it == Head(items)
         IN  IF it.game \notin DOMAIN GAMES
             THEN process_all(skip_unknown(res, it.game, it.raw_scores),
                              Tail(items))
             ELSE LET r == process_game(res, it.game, it.raw_scores)
                  IN  IF r.exc # "" THEN r
                      ELSE process_all(r.value, Tail(items))

calculate_daily_results(submission) ==
    LET r == process_all(InitResults, submission)
    IN  IF r.exc # "" THEN r ELSE rank_and_return(r.value)

\* variant: `results` is one dict at module level, that of the first
\* invocation
local_results_shared(cs, c) == cs[1].results

\* `results = {...}`: the dict an invocation works on is the one it built
local_results(cs, c) == cs[c].results

---------------------------------------------------------------------------
(* scoring_engine.py: validate_score_input *)

\* the values of `score`: an int, a float (in milli), float("nan"), and
\* None and Str from above
IntValue(n) == [kind |-> "int",   v |-> Milli(n)]
FloatValue(m) == [kind |-> "float", v |-> m]
NaN      == [kind |-> "nan",   v |-> 0]

\* the tuples returned; a message is the sequence of the pieces of its
\* f-string, "" is the empty sequence
Accept == [is_valid |-> TRUE, message |-> <<>>]
Reject(message) == [is_valid |-> FALSE, message |-> message]

\* isinstance(score, (int, float))
isinstance_int_float(score) == score.kind \in {"int", "float", "nan"}

\* isinstance(score, int)
isinstance_int(score) == score.kind = "int"

\* score < n and score > n; every comparison with nan is False
less(score, n)    == score.kind # "nan" /\ score.v < Milli(n)
greater(score, n) == score.kind # "nan" /\ score.v > Milli(n)

\* variant: a game that is not in the registry has no rule to break
unknown_game_accepted(game) == Accept

\* `if game not in GAMES: return False, f"Unknown game: {game}"`
unknown_game(game) == Reject(<<"Unknown game: ", game>>)

\* variant: a special game is held to the range 1..100 as well
validate_score_input_special_ranged(game, score, correct) ==
    IF game \notin DOMAIN GAMES THEN unknown_game(game)
    ELSE IF ~isinstance_int_float(score) \/ less(score, 1) \/ greater(score, 100)
    THEN Reject(<<game, " score must be between 1 and 100">>)
    ELSE Accept

validate_score_input(game, score, correct) ==
    IF game \notin DOMAIN GAMES THEN unknown_game(game)
    ELSE IF GAMES[game].type = "special" THEN Accept
    ELSE IF game \in {"Worldle", "Globle", "Countryle"}
    THEN IF ~isinstance_int_float(score) \/ less(score, 1) \/ greater(score, 100)
         THEN Reject(<<game, " score must be between 1 and 100">>)
         ELSE Accept
    ELSE IF game = "Travle"
    THEN IF ~isinstance_int_float(score) \/ less(score, 0 - 1) \/ greater(score, 100)
         THEN Reject(<<game, " score must be between -1 and 100">>)
         ELSE Accept
    ELSE IF game = "Geogrid"
    THEN IF ~isinstance_int(score) \/ less(score, 0) \/ greater(score, 900)
         THEN Reject(<<game, " score must be an integer between 0 and 900">>)
         ELSE Accept
    ELSE Accept

---------------------------------------------------------------------------
(* data_manager.py.  A data frame is the sequence of its rows; an empty
   field of the file, read back as NaN, is None *)

\* GAMES.keys(), in insertion order
GAMES_keys ==
    <<"Worldle", "Globle", "Countryle", "Travle", "Geogrid", "NoBordle",
      "ImpossiBordle">>

\* the rows of one game of `results`, one per roster player
game_rows(date, res, game) ==
    [i \in Roster |->
        [date   |-> date,
         game   |-> game,
         player |-> PLAYERS[i],
         raw_score |-> res.raw_scores[game][i],
         normalized_unweighted_score |-> res.normalized_unweighted[game][i],
         normalized_weighted_score   |-> res.normalized_weighted[game][i]]]

\* `rows` of save_daily_results, built over the first n keys of GAMES
RECURSIVE rows_upto(_, _, _)
rows_upto(date, res, n) ==
    IF n = 0 THEN <<>>
    ELSE rows_upto(date, res, n - 1) \o
         (IF GAMES_keys[n] \in DOMAIN res.raw_scores
          THEN game_rows(date, res, GAMES_keys[n])
          ELSE <<>>)

new_data(date, res) == rows_upto(date, res, Len(GAMES_keys))

\* variant: nothing of the file is dropped
keep_all_dates(df, date) == df

\* variant: the file is started afresh
keep_no_date(df, date) == <<>>

\* df[df["date"] != date]
remove_date(df, date) == SelectSeq(df, LAMBDA row : row.date # date)

\* the file as save_daily_results leaves it
save_daily_results(df, date, res) ==
    remove_date(df, date) \o new_data(date, res)

\* variant: the filter is inverted, df[df["date"] == date]
delete_other_dates(df, date) == SelectSeq(df, LAMBDA row : row.date = date)

\* the file as delete_date_data leaves it
delete_date_data(df, date) == SelectSeq(df, LAMBDA row : row.date # date)

\* date in df["date"].values
check_date_exists(df, date) == \E k \in DOMAIN df : df[k].date = date

\* df.groupby(["date", "player"])["normalized_weighted_score"].sum() for
\* one group: NaN is skipped, the sum of no number is 0
RECURSIVE group_sum(_, _, _)
group_sum(df, date, player) ==
    IF df = <<>> THEN 0
    ELSE (IF /\ Head(df).date = date
             /\ Head(df).player = player
             /\ Head(df).normalized_weighted_score # None
          THEN Head(df).normalized_weighted_score.v
          ELSE 0) + group_sum(Tail(df), date, player)

\* the players with a row of the date, in the sorted order of the groups;
\* PLAYERS is sorted
group_players(df, date) ==
    SelectSeq(PLAYERS, LAMBDA player :
        \E k \in DOMAIN df : df[k].date = date /\ df[k].player = player)

\* idxmin of the group sums of one date: the first of the lowest
idxmin(df, date) ==
    LET players == group_players(df, date)
        first == CHOOSE k \in DOMAIN players :
                    /\ \A l \in DOMAIN players :
                          group_sum(df, date, players[k])
                              <= group_sum(df, date, players[l])
                    /\ \A l \in 1..(k - 1) :
                          group_sum(df, date, players[l])
                              > group_sum(df, date, players[k])
    IN  players[first]

\* the dates of the file, sorted
Dates == <<"2024-01-01", "2024-01-02">>

\* the data frame get_daily_winners returns, sorted by date
get_daily_winners(df) ==
    LET dates == SelectSeq(Dates, LAMBDA date : check_date_exists(df, date))
    IN  [k \in DOMAIN dates |->
            [date |-> dates[k], winner |-> idxmin(df, dates[k])]]

---------------------------------------------------------------------------
(* daily_winners.py *)

\* the positions i of enumerate(PLAYERS) for which `participated` holds
participating_positions(res) ==
    SelectSeq([i \in Roster |-> i], LAMBDA i :
        \E game \in DOMAIN res.raw_scores : res.raw_scores[game][i] # None)

\* participating_players, in roster order
participating_players(res) ==
    LET at == participating_positions(res)
    IN  [k \in DOMAIN at |-> PLAYERS[at[k]]]

\* player_scores before the sort
player_scores(res) ==
    LET at == participating_positions(res)
    IN  [k \in DOMAIN at |->
            [player |-> PLAYERS[at[k]], total |-> res.total_scores[at[k]]]]

\* variant: the rank goes up by one at every change of score
RECURSIVE current_rank_dense(_, _)
current_rank_dense(scores, k) ==
    IF k = 1 THEN 1
    ELSE IF scores[k].total # scores[k - 1].total
         THEN current_rank_dense(scores, k - 1) + 1
         ELSE current_rank_dense(scores, k - 1)

\* current_rank when the loop is at the k-th entry of the sorted list
RECURSIVE current_rank(_, _)
current_rank(scores, k) ==
    IF k = 1 THEN 1
    ELSE IF scores[k].total # scores[k - 1].total
         THEN k
         ELSE current_rank(scores, k - 1)

\* `rows` of save_daily_placements
placement_rows(date, res) ==
    LET scores == sort_by_total(player_scores(res))
    IN  [k \in DOMAIN scores |->
            [date         |-> date,
             player       |-> scores[k].player,
             placement    |-> current_rank(scores, k),
             total_score  |-> scores[k].total,
             participants |-> participating_players(res)]]

\* the file as save_daily_placements leaves it
save_daily_placements(df, date, res) ==
    remove_date(df, date) \o placement_rows(date, res)

\* the data frame load_daily_winners returns
load_daily_winners(df) ==
    LET winners_df == SelectSeq(df, LAMBDA row : row.placement = 1)
    IN  [k \in DOMAIN winners_df |->
            [date |-> winners_df[k].date, winner |-> winners_df[k].player]]

---------------------------------------------------------------------------
(* Inputs *)

\* a game name that is not in the registry
UnknownGame == "Flagle"

DailyValues == {None} \cup {Num(Milli(n)) : n \in 1..MaxScore}

\* lists aligned to the roster; the malformed ones hold one string
MalformedVectors ==
    {[i \in Roster |-> IF i = j THEN Str ELSE Num(Milli(1))] : j \in Roster}

DailyVectors == [Roster -> DailyValues] \cup MalformedVectors

UnknownVectors == {[i \in Roster |-> Num(Milli(1))]}

\* a game left out of the submission
NotSubmitted == <<>>

\* submissions list Worldle, the unknown game and Travle in this order,
\* each of them optional
Submission(a, b, c) ==
    SelectSeq(<< [game |-> "Worldle",   raw_scores |-> a],
                 [game |-> UnknownGame, raw_scores |-> b],
                 [game |-> "Travle",    raw_scores |-> c] >>,
              LAMBDA it : it.raw_scores # NotSubmitted)

Submissions ==
    { Submission(a, b, c) :
        a \in DailyVectors \cup {NotSubmitted},
        b \in UnknownVectors \cup {NotSubmitted},
        c \in DailyVectors \cup {NotSubmitted} }

\* the normalizer alone is called for every game of the registry
NormGames == DOMAIN GAMES

\* Geogrid scores are entered in hundreds
RawUnit(game) == IF game = "Geogrid" THEN 100 ELSE 1

NormValues(game) ==
    {None, Str} \cup
    {Num(Milli(n * RawUnit(game))) : n \in (0 - NormMaxScore)..NormMaxScore}

NormInputs(game) ==
    UNION {[1..n -> NormValues(game)] : n \in 0..NormMaxLen}

---------------------------------------------------------------------------
(* Specification of one call of calculate_daily_results *)

FnOff ==
    /\ fn = ""
    /\ fn_in = <<>>
    /\ fn_out = <<>>
    /\ fpc = "off"

\* PLAYERS and GAMES as config.py defines them
Config == [PLAYERS |-> PLAYERS, GAMES |-> GAMES]

\* no concurrent invocation, both files hold their header only, the page
\* is not open
ConOff == calls = <<>> /\ config = Config

FilesOff == csv = <<>> /\ placements = <<>> /\ history = <<>>

PageOff == page = <<>>

AppOff == ConOff /\ FilesOff /\ PageOff

NormOff ==
    /\ raw_in = <<>>
    /\ game_in = ""
    /\ norm_out = <<>>
    /\ npc = "off"
    /\ nexc = ""

Init ==
    /\ scores_data \in Submissions
    /\ idx = 1
    /\ results = InitResults
    /\ pc = "loop"
    /\ exc = ""
    /\ NormOff
    /\ FnOff
    /\ AppOff

ProcessGame ==
    /\ pc = "loop"
    /\ idx <= Len(scores_data)
    /\ scores_data[idx].game \in DOMAIN GAMES
    /\ LET r == process_game(results, scores_data[idx].game,
                             scores_data[idx].raw_scores)
       IN  IF r.exc # ""
           THEN /\ pc' = "raised"
                /\ exc' = r.exc
                /\ UNCHANGED <<results, idx>>
           ELSE /\ results' = r.value
                /\ idx' = idx + 1
                /\ UNCHANGED <<pc, exc>>
    /\ UNCHANGED <<scores_data, raw_in, game_in, norm_out, npc, nexc>>
    /\ UNCHANGED fnvars
    /\ UNCHANGED appvars

SkipUnknownGame ==
    /\ pc = "loop"
    /\ idx <= Len(scores_data)
    /\ scores_data[idx].game \notin DOMAIN GAMES
    /\ results' = skip_unknown(results, scores_data[idx].game,
                               scores_data[idx].raw_scores)
    /\ idx' = idx + 1
    /\ UNCHANGED <<scores_data, pc, exc, raw_in, game_in, norm_out, npc, nexc>>
    /\ UNCHANGED fnvars
    /\ UNCHANGED appvars

RankAndReturn ==
    /\ pc = "loop"
    /\ idx > Len(scores_data)
    /\ LET r == rank_and_return(results)
       IN  IF r.exc # ""
           THEN /\ pc' = "raised"
                /\ exc' = r.exc
                /\ UNCHANGED results
           ELSE /\ pc' = "done"
                /\ results' = r.value
                /\ UNCHANGED exc
    /\ UNCHANGED <<scores_data, idx, raw_in, game_in, norm_out, npc, nexc>>
    /\ UNCHANGED fnvars
    /\ UNCHANGED appvars

Next == ProcessGame \/ SkipUnknownGame \/ RankAndReturn

Spec == Init /\ [][Next]_vars

---------------------------------------------------------------------------
(* Specification of one call of calculate_normalized_score *)

DailyOff ==
    /\ scores_data = <<>>
    /\ idx = 0
    /\ results = InitResults
    /\ pc = "off"
    /\ exc = ""

InitNorm ==
    /\ game_in \in NormGames
    /\ raw_in \in NormInputs(game_in)
    /\ norm_out = <<>>
    /\ npc = "call"
    /\ nexc = ""
    /\ DailyOff
    /\ FnOff
    /\ AppOff

NormReturn ==
    /\ npc = "call"
    /\ LET r == calculate_normalized_score(raw_in, game_in)
       IN  /\ r.exc = ""
           /\ norm_out' = r.value
           /\ npc' = "returned"
    /\ UNCHANGED <<scores_data, idx, results, pc, exc, raw_in, game_in, nexc>>
    /\ UNCHANGED fnvars
    /\ UNCHANGED appvars

NormRaise ==
    /\ npc = "call"
    /\ LET r == calculate_normalized_score(raw_in, game_in)
       IN  /\ r.exc # ""
           /\ nexc' = r.exc
           /\ npc' = "raised"
    /\ UNCHANGED <<scores_data, idx, results, pc, exc, raw_in, game_in, norm_out>>
    /\ UNCHANGED fnvars
    /\ UNCHANGED appvars

NextNorm == NormReturn \/ NormRaise

SpecNorm == InitNorm /\ [][NextNorm]_vars

---------------------------------------------------------------------------
(* Specification of one call of calculate_special_score, with the arguments *)
(* the submission page passes                                              *)

\* st.number_input("Number of guesses:", min_value=1, max_value=20)
MaxGuesses == 20

SpecialGames == {g \in DOMAIN GAMES : GAMES[g].type = "special"}

\* st.number_input("Distance (miles):", min_value=0.0), in steps of 125
Distances == {125 * k : k \in 0..MaxFar}

SpecialInputs ==
    {[correct |-> TRUE, measurement |-> m, game_type |-> g] :
        m \in 1..MaxGuesses, g \in SpecialGames}
    \cup
    {[correct |-> FALSE, measurement |-> m, game_type |-> g] :
        m \in Distances, g \in SpecialGames}

InitSpecial ==
    /\ fn = "calculate_special_score"
    /\ fn_in \in SpecialInputs
    /\ fn_out = <<>>
    /\ fpc = "call"
    /\ DailyOff
    /\ NormOff
    /\ AppOff

SpecialReturn ==
    /\ fn = "calculate_special_score"
    /\ fpc = "call"
    /\ fn_out' = calculate_special_score(fn_in.correct, fn_in.measurement,
                                         fn_in.game_type)
    /\ fpc' = "returned"
    /\ UNCHANGED <<scores_data, idx, results, pc, exc, raw_in, game_in,
                   norm_out, npc, nexc, fn, fn_in>>
    /\ UNCHANGED appvars

NextSpecial == SpecialReturn

SpecSpecial == InitSpecial /\ [][NextSpecial]_vars

---------------------------------------------------------------------------
(* Specification of one call of calculate_daily_results for a day on which
   one standard game of the registry was played *)

StandardGames == {g \in DOMAIN GAMES : GAMES[g].type = "standard"}

\* the lowest score the game accepts
LowestScore(game) ==
    IF game = "Travle" THEN 0 - 1
    ELSE IF game = "Geogrid" THEN 0
    ELSE 1

SingleValues(game) ==
    {None} \cup
    {Num(Milli(n * RawUnit(game))) : n \in LowestScore(game)..MaxSingleScore}

SingleGameDays ==
    UNION { { << [game |-> g, raw_scores |-> v] >> :
                v \in [Roster -> SingleValues(g)] } : g \in StandardGames }

InitSingle ==
    /\ scores_data \in SingleGameDays
    /\ idx = 1
    /\ results = InitResults
    /\ pc = "loop"
    /\ exc = ""
    /\ NormOff
    /\ FnOff
    /\ AppOff

NextSingle == ProcessGame \/ RankAndReturn

SpecSingle == InitSingle /\ [][NextSingle]_vars

---------------------------------------------------------------------------
(* Specification of one call of validate_score_input *)

\* names that are not keys of GAMES
UnknownGames == {UnknownGame, "worldle"}

\* the ends of the ranges and a value inside each of them
Landmarks == {0 - 1, 0, 1, 50, 100, 450, 900}

ValidateInts ==
    UNION {(n - MaxBeyond)..(n + MaxBeyond) : n \in Landmarks}

\* ints, floats with an integral value, floats half a unit above one,
\* nan, None and a string
ValidateScores ==
    {IntValue(n) : n \in ValidateInts}
        \cup {FloatValue(Milli(n)) : n \in ValidateInts}
        \cup {FloatValue(Milli(n) + 500) : n \in ValidateInts}
        \cup {NaN, None, Str}

\* the argument `correct`: None, True or False
CorrectValues == {"None", "True", "False"}

ValidateInputs ==
    [game : DOMAIN GAMES \cup UnknownGames,
     score : ValidateScores,
     correct : CorrectValues]

InitValidate ==
    /\ fn = "validate_score_input"
    /\ fn_in \in ValidateInputs
    /\ fn_out = <<>>
    /\ fpc = "call"
    /\ DailyOff
    /\ NormOff
    /\ AppOff

ValidateReturn ==
    /\ fn = "validate_score_input"
    /\ fpc = "call"
    /\ fn_out' = validate_score_input(fn_in.game, fn_in.score, fn_in.correct)
    /\ fpc' = "returned"
    /\ UNCHANGED <<scores_data, idx, results, pc, exc, raw_in, game_in,
                   norm_out, npc, nexc, fn, fn_in>>
    /\ UNCHANGED appvars

NextValidate == ValidateReturn

SpecValidate == InitValidate /\ [][NextValidate]_vars

---------------------------------------------------------------------------
(* Specification of one call of calculate_weighted_scores *)

WeightValues ==
    {None} \cup {Num(250 * k) : k \in (0 - MaxQuarters)..MaxQuarters}

WeightInputs ==
    {[normalized_scores |-> l, game |-> g] :
        l \in UNION {[1..n -> WeightValues] : n \in 0..MaxWeightLen},
        g \in DOMAIN GAMES}

InitWeight ==
    /\ fn = "calculate_weighted_scores"
    /\ fn_in \in WeightInputs
    /\ fn_out = <<>>
    /\ fpc = "call"
    /\ DailyOff
    /\ NormOff
    /\ AppOff

WeightReturn ==
    /\ fn = "calculate_weighted_scores"
    /\ fpc = "call"
    /\ fn_out' = calculate_weighted_scores(fn_in.normalized_scores, fn_in.game)
    /\ fpc' = "returned"
    /\ UNCHANGED <<scores_data, idx, results, pc, exc, raw_in, game_in,
                   norm_out, npc, nexc, fn, fn_in>>
    /\ UNCHANGED appvars

NextWeight == WeightReturn

SpecWeight == InitWeight /\ [][NextWeight]_vars

---------------------------------------------------------------------------
(* Specification of two invocations of calculate_daily_results running
   concurrently; a step is one pass of the loop or the part after it *)

Invocations == 1..2

ConValues == {None, Num(Milli(1)), Num(Milli(2))}

ConVectors ==
    {v \in [Roster -> ConValues] :
        Cardinality({i \in Roster : v[i] # None}) <= MaxConPresent}

\* the lists the second invocation is given
PeerWorldle == <<Num(Milli(2)), Num(Milli(1)), None, Num(Milli(2))>>
PeerTravle  == <<None, Num(Milli(1)), Num(Milli(2)), Num(Milli(0 - 1))>>

ConSubmissions ==
    { Submission(a, b, c) :
        a \in ConVectors,
        b \in UnknownVectors \cup {NotSubmitted},
        c \in {PeerTravle, NotSubmitted} }

PeerSubmissions ==
    { Submission(a, b, c) :
        a \in {PeerWorldle},
        b \in UnknownVectors \cup {NotSubmitted},
        c \in {PeerTravle, NotSubmitted} }

\* the locals of an invocation at its entry
Entry(submission) ==
    [scores_data |-> submission, idx |-> 1, results |-> InitResults,
     pc |-> "loop", exc |-> ""]

InitConcurrent ==
    /\ \E s1 \in ConSubmissions :
       \E s2 \in PeerSubmissions \cup {s1} :
          calls = [c \in Invocations |-> Entry(IF c = 1 THEN s1 ELSE s2)]
    /\ config = Config
    /\ FilesOff
    /\ PageOff
    /\ DailyOff
    /\ NormOff
    /\ FnOff

ConProcessGame(c) ==
    /\ calls[c].pc = "loop"
    /\ calls[c].idx <= Len(calls[c].scores_data)
    /\ calls[c].scores_data[calls[c].idx].game \in DOMAIN GAMES
    /\ LET it == calls[c].scores_data[calls[c].idx]
           r  == process_game(local_results(calls, c), it.game, it.raw_scores)
       IN  IF r.exc # ""
           THEN calls' = [calls EXCEPT ![c].pc = "raised", ![c].exc = r.exc]
           ELSE calls' = [calls EXCEPT ![c].results = r.value,
                                       ![c].idx = @ + 1]

ConSkipUnknownGame(c) ==
    /\ calls[c].pc = "loop"
    /\ calls[c].idx <= Len(calls[c].scores_data)
    /\ calls[c].scores_data[calls[c].idx].game \notin DOMAIN GAMES
    /\ LET it == calls[c].scores_data[calls[c].idx]
       IN  calls' = [calls EXCEPT
                        ![c].results = skip_unknown(local_results(calls, c),
                                                    it.game, it.raw_scores),
                        ![c].idx = @ + 1]

ConRankAndReturn(c) ==
    /\ calls[c].pc = "loop"
    /\ calls[c].idx > Len(calls[c].scores_data)
    /\ LET r == rank_and_return(local_results(calls, c))
       IN  IF r.exc # ""
           THEN calls' = [calls EXCEPT ![c].pc = "raised", ![c].exc = r.exc]
           ELSE calls' = [calls EXCEPT ![c].results = r.value,
                                       ![c].pc = "done"]

ConStep(c) ==
    /\ \/ ConProcessGame(c)
       \/ ConSkipUnknownGame(c)
       \/ ConRankAndReturn(c)
    /\ UNCHANGED <<scores_data, idx, results, pc, exc, raw_in, game_in,
                   norm_out, npc, nexc, config, csv, placements, history,
                   page>>
    /\ UNCHANGED fnvars

NextConcurrent == \E c \in Invocations : ConStep(c)

SpecConcurrent == InitConcurrent /\ [][NextConcurrent]_vars

---------------------------------------------------------------------------
(* Specification of a series of calls of data_manager.py on one file *)

\* the days whose results are saved
StoreWorldle ==
    { <<None, Num(Milli(1)), Num(Milli(1)), Num(Milli(2))>>,
      <<Num(Milli(2)), Num(Milli(1)), None, Num(Milli(3))>>,
      <<Num(Milli(1)), Num(Milli(2)), Num(Milli(2)), Num(Milli(3))>> }

StoreTravle == <<Num(Milli(1)), None, None, Num(Milli(2))>>

StoreDays ==
    { Submission(a, NotSubmitted, NotSubmitted) : a \in StoreWorldle }
        \cup { Submission(StoreTravle, NotSubmitted, StoreTravle) }

\* the results of calculate_daily_results for these days
StoreResults == {calculate_daily_results(day).value : day \in StoreDays}

DateSet == {Dates[k] : k \in DOMAIN Dates}

InitStore ==
    /\ FilesOff
    /\ FnOff
    /\ ConOff
    /\ PageOff
    /\ DailyOff
    /\ NormOff

\* a call `name(args)` that returned `out`
Called(name, args, out) ==
    /\ Len(history) < MaxOps
    /\ fn' = name
    /\ fn_in' = args
    /\ fn_out' = out
    /\ fpc' = "returned"
    /\ history' = Append(history, [fn |-> name, args |-> args])
    /\ UNCHANGED <<scores_data, idx, results, pc, exc, raw_in, game_in,
                   norm_out, npc, nexc, calls, config, page>>

SaveDailyResults ==
    \E date \in DateSet, res \in StoreResults :
        /\ Called("save_daily_results", [date |-> date, results |-> res], TRUE)
        /\ csv' = save_daily_results(csv, date, res)
        /\ UNCHANGED placements

DeleteDateData ==
    \E date \in DateSet :
        /\ Called("delete_date_data", [date |-> date], TRUE)
        /\ csv' = delete_date_data(csv, date)
        /\ UNCHANGED placements

CheckDateExists ==
    \E date \in DateSet :
        /\ Called("check_date_exists", [date |-> date],
                  check_date_exists(csv, date))
        /\ UNCHANGED <<csv, placements>>

GetDailyWinners ==
    /\ Called("get_daily_winners", <<>>, get_daily_winners(csv))
    /\ UNCHANGED <<csv, placements>>

NextStore ==
    \/ SaveDailyResults
    \/ DeleteDateData
    \/ CheckDateExists
    \/ GetDailyWinners

SpecStore == InitStore /\ [][NextStore]_vars

---------------------------------------------------------------------------
(* Specification of a call of save_daily_placements followed by one of
   load_daily_winners *)

PlaceValues == {None} \cup {Num(Milli(n)) : n \in 1..MaxPlaceScore}

\* days with Worldle, played by somebody, and with or without Travle
PlaceDays ==
    { Submission(a, NotSubmitted, c) :
        a \in {v \in [Roster -> PlaceValues] : \E i \in Roster : v[i] # None},
        c \in {PeerTravle, NotSubmitted} }

PlaceResults == {calculate_daily_results(day).value : day \in PlaceDays}

\* the file before the call: with its header only, or with the rows of
\* an earlier save
PriorResults ==
    calculate_daily_results(
        Submission(PeerWorldle, NotSubmitted, NotSubmitted)).value

PriorPlacements ==
    {<<>>} \cup
    {save_daily_placements(<<>>, date, PriorResults) : date \in DateSet}

InitPlacements ==
    /\ fn = "save_daily_placements"
    /\ fn_in \in [date : DateSet, results : PlaceResults]
    /\ fn_out = <<>>
    /\ fpc = "call"
    /\ placements \in PriorPlacements
    /\ csv = <<>>
    /\ history = <<>>
    /\ ConOff
    /\ PageOff
    /\ DailyOff
    /\ NormOff

SaveDailyPlacements ==
    /\ fn = "save_daily_placements"
    /\ fpc = "call"
    /\ placements' = save_daily_placements(placements, fn_in.date,
                                           fn_in.results)
    /\ fn_out' = TRUE
    /\ fpc' = "returned"
    /\ UNCHANGED <<scores_data, idx, results, pc, exc, raw_in, game_in,
                   norm_out, npc, nexc, fn, fn_in, calls, config, csv,
                   history, page>>

LoadDailyWinners ==
    /\ fn = "save_daily_placements"
    /\ fpc = "returned"
    /\ fn' = "load_daily_winners"
    /\ fn_out' = load_daily_winners(placements)
    /\ UNCHANGED <<scores_data, idx, results, pc, exc, raw_in, game_in,
                   norm_out, npc, nexc, fn_in, fpc, calls, config, csv,
                   placements, history, page>>

NextPlacements == SaveDailyPlacements \/ LoadDailyWinners

SpecPlacements == InitPlacements /\ [][NextPlacements]_vars

---------------------------------------------------------------------------
(* pages/daily_submission.py.  The script runs from top to bottom after
   every interaction; st.button(label) is True only in the run started by
   a click on that button.  `clicked` is the button that started the run,
   "" for another widget *)

Calculate == "Calculate Results"
SubmitRecords == "Submit to Official Records"

\* the value the widgets of a game hold for a participating player:
\* Worldle as entered, Geogrid entered as 100, the others at their default
widget_score(pg, game, i) ==
    IF game = "Worldle" THEN Num(Milli(pg.worldle[i]))
    ELSE IF game = "Travle" THEN Num(Milli(0 - 1))
    ELSE IF game = "Geogrid" THEN Num(Milli(100))
    ELSE IF GAMES[game].type = "special"
         THEN Num(calculate_special_score(TRUE, 1, game))
    ELSE Num(Milli(1))

\* scores_for_calculation, in the order of GAMES.keys()
scores_for_calculation(pg) ==
    [k \in DOMAIN GAMES_keys |->
        [game |-> GAMES_keys[k],
         raw_scores |-> [i \in Roster |->
             IF pg.participation[i]
             THEN widget_score(pg, GAMES_keys[k], i)
             ELSE None]]]

\* the loop of lines 255-264 compares a raw score of None with a number
display_raises(res) ==
    \E game \in {"Worldle", "Globle", "Countryle", "Travle"} \cap
                DOMAIN res.raw_scores :
        \E i \in Roster : res.raw_scores[game][i] = None

\* display_results: [page, save], save telling whether save_daily_results
\* was called
display_results(pg, res, clicked) ==
    IF display_raises(res)
    THEN [page |-> [pg EXCEPT !.submit_shown = FALSE], save |-> FALSE]
    ELSE IF clicked = SubmitRecords
    THEN [page |-> [pg EXCEPT !.submit_shown = FALSE,
                              !.session = [set |-> FALSE,
                                           current_results |-> InitResults,
                                           current_date |-> ""]],
          save |-> TRUE]
    ELSE [page |-> [pg EXCEPT !.submit_shown = TRUE], save |-> FALSE]

\* one run of show()
show(pg, clicked) ==
    IF \A i \in Roster : ~pg.participation[i]
    THEN [page |-> [pg EXCEPT !.calculate_shown = FALSE,
                              !.submit_shown = FALSE,
                              !.clicked = clicked],
          save |-> FALSE]
    ELSE IF clicked = Calculate
    THEN LET r   == calculate_daily_results(scores_for_calculation(pg))
             ses == [set |-> TRUE, current_results |-> r.value,
                     current_date |-> pg.selected_date]
         IN  display_results([pg EXCEPT !.calculate_shown = TRUE,
                                        !.clicked = clicked,
                                        !.session = ses],
                             r.value, clicked)
    ELSE [page |-> [pg EXCEPT !.calculate_shown = TRUE,
                              !.submit_shown = FALSE,
                              !.clicked = clicked],
          save |-> FALSE]

---------------------------------------------------------------------------
(* Specification of a session on the daily submission page *)

\* who takes part: everybody, everybody but the last, nobody; the clicks
\* on the checkboxes that lead from one to another count as one, the runs
\* in between showing neither results nor the submit button
Participations ==
    { [i \in Roster |-> TRUE],
      [i \in Roster |-> i # Len(PLAYERS)],
      [i \in Roster |-> FALSE] }

WorldleEntries == 1..MaxPageScore

\* the page as its first run leaves it
FirstPage ==
    [selected_date   |-> Dates[1],
     participation   |-> [i \in Roster |-> TRUE],
     worldle         |-> [i \in Roster |-> 1],
     session         |-> [set |-> FALSE, current_results |-> InitResults,
                          current_date |-> ""],
     calculate_shown |-> TRUE,
     submit_shown    |-> FALSE,
     clicked         |-> ""]

InitPage ==
    /\ page = FirstPage
    /\ FilesOff
    /\ FnOff
    /\ ConOff
    /\ DailyOff
    /\ NormOff

\* a run of the script on the widget values `pg`, started by `clicked`
Rerun(pg, clicked) ==
    LET run == show(pg, clicked)
    IN  /\ page' = run.page
        /\ IF run.save
           THEN /\ csv' = save_daily_results(csv, page.session.current_date,
                                             page.session.current_results)
                /\ fn' = "save_daily_results"
                /\ fn_in' = [date    |-> page.session.current_date,
                             results |-> page.session.current_results]
                /\ fn_out' = TRUE
                /\ fpc' = "returned"
           ELSE UNCHANGED <<csv, fn, fn_in, fn_out, fpc>>
        /\ UNCHANGED <<scores_data, idx, results, pc, exc, raw_in, game_in,
                       norm_out, npc, nexc, calls, config, placements,
                       history>>

SelectDate ==
    \E date \in DateSet :
        /\ date # page.selected_date
        /\ Rerun([page EXCEPT !.selected_date = date], "")

ToggleParticipation ==
    \E p \in Participations :
        /\ p # page.participation
        /\ Rerun([page EXCEPT !.participation = p], "")

EnterScores ==
    \E i \in Roster, n \in WorldleEntries :
        /\ page.participation[i]
        /\ n # page.worldle[i]
        /\ Rerun([page EXCEPT !.worldle[i] = n], "")

ClickCalculate ==
    /\ page.calculate_shown
    /\ Rerun(page, Calculate)

ClickSubmit ==
    /\ page.submit_shown
    /\ Rerun(page, SubmitRecords)

NextPage ==
    \/ SelectDate
    \/ ToggleParticipation
    \/ EnterScores
    \/ ClickCalculate
    \/ ClickSubmit

SpecPage == InitPage /\ [][NextPage]_vars

---------------------------------------------------------------------------
(* Vocabulary of the properties, read off the submission itself *)

Range(s) == {s[k] : k \in DOMAIN s}

IsKnown(game) == game \in DOMAIN GAMES

KnownItems(items) == SelectSeq(items, LAMBDA it : IsKnown(it.game))

AllAbsent(raw_scores) == \A i \in DOMAIN raw_scores : raw_scores[i] = None

\* the submission without the registry games nobody played
PlayedItems(items) ==
    SelectSeq(items, LAMBDA it : ~(IsKnown(it.game) /\ AllAbsent(it.raw_scores)))

\* roster positions with a present value in some registry game of the day
Participants ==
    {i \in Roster : \E k \in DOMAIN scores_data :
        /\ IsKnown(scores_data[k].game)
        /\ scores_data[k].raw_scores[i] # None}

\* roster positions absent from every submitted game
AbsentAllDay ==
    {i \in Roster : \A k \in DOMAIN scores_data :
        scores_data[k].raw_scores[i] = None}

RosterIndex(player) == CHOOSE i \in Roster : PLAYERS[i] = player

RankedPlayers == {results.rankings[k].player : k \in DOMAIN results.rankings}

RECURSIVE SumOver(_, _)
SumOver(S, f) ==
    IF S = {} THEN 0
    ELSE LET x == CHOOSE y \in S : TRUE
         IN  f[x] + SumOver(S \ {x}, f)

\* the registry games of the results in which player i has a weighted score
ScoredGames(i) ==
    {g \in DOMAIN results.normalized_weighted :
        results.normalized_weighted[g][i] # None}

Finished == pc \in {"done", "raised"}

\* the outcome of the call equals the outcome `ref` of another call, in
\* everything but the per-game tables
SameOutcome(ref) ==
    /\ (pc = "raised") <=> (ref.exc # "")
    /\ pc = "raised" => exc = ref.exc
    /\ pc = "done" =>
          /\ results.total_scores = ref.value.total_scores
          /\ results.rankings = ref.value.rankings
          /\ results.winners = ref.value.winners
          /\ results.winner = ref.value.winner
          /\ results.is_tie = ref.value.is_tie

---------------------------------------------------------------------------
(* Properties of calculate_daily_results (specification Spec) *)

\* C1: when the call returns, the winners are exactly the participating
\* players whose total is the minimum total of the participating players;
\* one such player: sole winner, is_tie false; several: is_tie true
C1_TieResolution ==
    pc = "done" =>
        LET lowest == {i \in Participants : \A j \in Participants :
                          results.total_scores[i] <= results.total_scores[j]}
        IN  /\ Range(results.winners) = {PLAYERS[i] : i \in lowest}
            /\ Len(results.winners) = Cardinality(lowest)
            /\ Cardinality(lowest) = 1 =>
                  /\ results.is_tie = FALSE
                  /\ results.winners = <<results.winner>>
            /\ Cardinality(lowest) > 1 => results.is_tie = TRUE

\* two players tie for the lowest total and a third has a higher one
C1_Witness ==
    /\ pc = "done"
    /\ results.is_tie
    /\ Len(results.winners) = 2
    /\ Len(results.rankings) = 3
    /\ results.rankings[3].total > results.rankings[1].total

\* C2: a day on which nobody has a present value in a registry game
\* returns an empty ranking and an empty winner list, without raising
C2_EmptyDayReturns ==
    Participants = {} =>
        /\ pc # "raised"
        /\ pc = "done" => results.rankings = <<>> /\ results.winners = <<>>

\* C4: a player absent from every game of the day is in neither the
\* ranking nor the winners; a player present in a registry game is ranked
C4_AbsentExcluded ==
    pc = "done" =>
        /\ \A i \in AbsentAllDay :
              /\ PLAYERS[i] \notin RankedPlayers
              /\ PLAYERS[i] \notin Range(results.winners)
        /\ \A i \in Participants : PLAYERS[i] \in RankedPlayers

\* a player sat the day out, whose untouched total of 0 is not above any
\* ranked total, and some ranked total is above 0
C4_Witness ==
    /\ pc = "done"
    /\ AbsentAllDay # {}
    /\ \A k \in DOMAIN results.rankings : results.rankings[k].total >= 0
    /\ \E k \in DOMAIN results.rankings : results.rankings[k].total > 0

\* C5: each total is the sum of the player's present weighted scores over
\* the registry games of the day, and the ranking shows that total
C5_TotalIsSum ==
    pc = "done" =>
        /\ DOMAIN results.normalized_weighted =
              {scores_data[k].game : k \in DOMAIN scores_data} \cap DOMAIN GAMES
        /\ \A i \in Roster :
              results.total_scores[i] =
                 SumOver(ScoredGames(i),
                         [g \in ScoredGames(i) |->
                             results.normalized_weighted[g][i].v])
        /\ \A k \in DOMAIN results.rankings :
              results.rankings[k].total =
                 results.total_scores[RosterIndex(results.rankings[k].player)]

\* one player scored in two games, another sat one of two games out
C5_Witness ==
    /\ pc = "done"
    /\ \E i \in Roster :
          /\ Cardinality(ScoredGames(i)) = 2
          /\ \A g \in ScoredGames(i) : results.normalized_weighted[g][i].v # 0
    /\ \E i \in Roster :
          /\ Cardinality(ScoredGames(i)) = 1
          /\ Cardinality(DOMAIN results.normalized_weighted) = 2
          /\ results.total_scores[i] # 0

\* C6: the ranking is in non-decreasing order of total, equal totals are
\* in roster order, and the winners are all the players of the lowest
\* total wherever they stand among their equals
C6_RankingOrder ==
    pc = "done" =>
        /\ \A k, l \in DOMAIN results.rankings : k < l =>
              /\ results.rankings[k].total <= results.rankings[l].total
              /\ results.rankings[k].total = results.rankings[l].total =>
                    RosterIndex(results.rankings[k].player) <
                    RosterIndex(results.rankings[l].player)
        /\ Range(results.winners) =
              {results.rankings[k].player : k \in
                  {l \in DOMAIN results.rankings :
                      results.rankings[l].total = results.rankings[1].total}}

\* two players share a total and a third has another one
C6_Witness ==
    /\ pc = "done"
    /\ \E k, l \in DOMAIN results.rankings :
          k < l /\ results.rankings[k].total = results.rankings[l].total
    /\ \E k, l \in DOMAIN results.rankings :
          results.rankings[k].total < results.rankings[l].total

\* C7: a game that is not in the registry is skipped: the call ends as it
\* ends on the submission without that game, and the game is in none of
\* the per-game tables
C7_UnknownGameSkipped ==
    /\ Finished => SameOutcome(calculate_daily_results(KnownItems(scores_data)))
    /\ \A g \in (DOMAIN results.raw_scores
                   \cup DOMAIN results.normalized_unweighted
                   \cup DOMAIN results.normalized_weighted) : IsKnown(g)

\* the day held an unknown game, played by someone who played nothing else
C7_Witness ==
    /\ pc = "done"
    /\ \E k \in DOMAIN scores_data : ~IsKnown(scores_data[k].game)
    /\ \E i \in Roster :
          /\ i \notin Participants
          /\ i \notin AbsentAllDay
    /\ results.rankings # <<>>

---------------------------------------------------------------------------
(* Properties of calculate_normalized_score (specification SpecNorm) *)

WithoutAbsent(s) == SelectSeq(s, LAMBDA x : x # None)

\* positions of the present entries of raw_in, ascending
PresentPositions ==
    SelectSeq([i \in DOMAIN raw_in |-> i], LAMBDA i : raw_in[i] # None)

WellFormedValues ==
    LET kept == SelectSeq(raw_in, LAMBDA x : x.kind = "num")
    IN  [k \in DOMAIN kept |-> actual_score(kept[k].v, game_in)]

\* C3: one malformed value among the raw scores of a game: the call
\* returns, that player gets 0.0 and the others the formula's value
C3_MalformedContained ==
    (npc # "call" /\ Cardinality({i \in DOMAIN raw_in : raw_in[i] = Str}) = 1) =>
        /\ npc = "returned"
        /\ \A i \in DOMAIN raw_in :
              IF raw_in[i] = Str THEN norm_out[i] = Num(0)
              ELSE norm_out[i] =
                      normalize_entry(raw_in[i], game_in,
                                      np_median(WellFormedValues))

C9_MedianOverPresent ==
    npc = "returned" =>
        LET ref == calculate_normalized_score(WithoutAbsent(raw_in), game_in)
        IN  /\ ref.exc = ""
            /\ Len(ref.value) = Len(PresentPositions)
            /\ \A k \in DOMAIN PresentPositions :
                  norm_out[PresentPositions[k]] = ref.value[k]

\* an absent entry sits among participants whose median is not 0 and who
\* do not all get 0
C9_Witness ==
    /\ npc = "returned"
    /\ \E i \in DOMAIN raw_in : raw_in[i] = None
    /\ Len(PresentPositions) >= 2
    /\ np_median(WellFormedValues) > 0
    /\ \E i \in DOMAIN norm_out : norm_out[i].kind = "num" /\ norm_out[i].v # 0

Present == {i \in DOMAIN raw_in : raw_in[i] # None}

\* the (rescaled) score of the present entry i
Scaled(i) == IF game_in = "Geogrid" THEN raw_in[i].v \div 100 ELSE raw_in[i].v

\* the middle value of an odd number of present scores: no more than half
\* of the others are below it and no more than half above
MiddleScore ==
    LET half == (Cardinality(Present) - 1) \div 2
    IN  CHOOSE m \in {Scaled(i) : i \in Present} :
           /\ Cardinality({i \in Present : Scaled(i) < m}) <= half
           /\ Cardinality({i \in Present : Scaled(i) > m}) <= half

Sign(n) == IF n < 0 THEN 0 - 1 ELSE IF n > 0 THEN 1 ELSE 0

\* C11: an odd number of present scores of a standard game with a positive
\* median: a score equal to the median normalizes to exactly 0, a score
\* below it to a negative value and a score above it to a positive one
C11_MedianAnchoring ==
    (/\ npc = "returned"
     /\ Cardinality(Present) % 2 = 1
     /\ GAMES[game_in].type = "standard"
     /\ MiddleScore > 0) =>
        \A i \in Present :
            /\ norm_out[i].kind = "num"
            /\ Sign(norm_out[i].v) = Sign(Scaled(i) - MiddleScore)

\* three participants, one below, one at and one above a positive median
C11_Witness ==
    /\ npc = "returned"
    /\ Cardinality(Present) = 3
    /\ GAMES[game_in].type = "standard"
    /\ MiddleScore > 0
    /\ \E i, j, k \in Present :
          /\ Scaled(i) < MiddleScore /\ norm_out[i].v < 0
          /\ Scaled(j) = MiddleScore /\ norm_out[j] = Num(0)
          /\ Scaled(k) > MiddleScore /\ norm_out[k].v > 0

\* C12: with a negative median every participant's normalized score has
\* the sign of (score - median)
C12_SignUnderNegativeMedian ==
    (npc = "returned" /\ Present # {} /\ np_median(WellFormedValues) < 0) =>
        \A i \in Present :
            Sign(norm_out[i].v) = Sign(Scaled(i) - np_median(WellFormedValues))

\* the shape of [-10, -5, -5]: one score below a negative median shared by
\* two others
C12_Witness ==
    /\ npc = "returned"
    /\ Cardinality(Present) = 3
    /\ np_median(WellFormedValues) < 0
    /\ \E i, j, k \in Present :
          /\ i # j /\ j # k /\ i # k
          /\ Scaled(i) < Scaled(j) /\ Scaled(j) = Scaled(k)
          /\ norm_out[i].v < 0
          /\ norm_out[j] = Num(0) /\ norm_out[k] = Num(0)

\* C13: with a median of exactly 0 every participant's normalized score
\* is the participant's (rescaled) score itself
C13_ZeroMedian ==
    (npc = "returned" /\ Present # {} /\ np_median(WellFormedValues) = 0) =>
        \A i \in Present : norm_out[i] = Num(Scaled(i))

\* a rescaled game with a median of 0 and scores on both sides of it
C13_Witness ==
    /\ npc = "returned"
    /\ game_in = "Geogrid"
    /\ Present # {}
    /\ np_median(WellFormedValues) = 0
    /\ \E i \in Present : norm_out[i].v > 0
    /\ \E i \in Present : norm_out[i].v < 0

\* the list s with every present score multiplied by k
Times(s, k) ==
    [i \in DOMAIN s |-> IF s[i].kind = "num" THEN Num(s[i].v * k) ELSE s[i]]

\* the list s with every present score divided by 100
Hundredth(s) ==
    [i \in DOMAIN s |-> IF s[i].kind = "num" THEN Num(s[i].v \div 100) ELSE s[i]]

\* C17: Geogrid scores s are normalized as s/100 is under a game that is
\* not rescaled, and the other games are not rescaled: their scores s are
\* normalized as 100*s is under Geogrid
C17_GeogridRescale ==
    npc = "returned" =>
        IF game_in = "Geogrid"
        THEN \A g \in DOMAIN GAMES \ {"Geogrid"} :
                norm_out = calculate_normalized_score(Hundredth(raw_in), g).value
        ELSE norm_out =
                calculate_normalized_score(Times(raw_in, 100), "Geogrid").value

\* three Geogrid scores, distinct, in hundreds, around a median that is
\* not 0
C17_Witness ==
    /\ npc = "returned"
    /\ game_in = "Geogrid"
    /\ Cardinality(Present) = 3
    /\ np_median(WellFormedValues) > 0
    /\ \E i, k \in Present :
          /\ raw_in[i].v < raw_in[k].v
          /\ norm_out[i].v < 0 /\ norm_out[k].v > 0

---------------------------------------------------------------------------
(* Properties of calculate_special_score (specification SpecSpecial) *)

SpecialReturned == fn = "calculate_special_score" /\ fpc = "returned"

\* C14: a success in at most 6 guesses scores the guess count; anything
\* else scores 8 * (1 + sqrt(d / 12500)), d the distance of a failure and 0
\* after a success, so that a success in more than 6 guesses scores 8;
\* (True, 6) -> 6, (True, 7) -> 8, (False, 12500) -> 16
C14_SpecialScore ==
    SpecialReturned =>
        LET c == fn_in.correct
            m == fn_in.measurement
            d == IF c THEN 0 ELSE m
            r == fn_out \div 8 - 1000
        IN  /\ (c /\ m <= 6) => fn_out = 1000 * m
            /\ ~(c /\ m <= 6) =>
                  /\ fn_out = 8 * (1000 + r)
                  /\ r >= 0
                  /\ r * r <= 80 * d
                  /\ 80 * d < (r + 1) * (r + 1)
            /\ (c /\ m > 6) => fn_out = 8000
            /\ (c /\ m = 6) => fn_out = 6000
            /\ (c /\ m = 7) => fn_out = 8000
            /\ (~c /\ m = 12500) => fn_out = 16000

\* a success in 7 guesses scored 8
C14_Witness ==
    /\ SpecialReturned
    /\ fn_in.correct
    /\ fn_in.measurement = 7
    /\ fn_out = 8000

\* C15: the score of a failure is 8 at distance 0, grows strictly with
\* the distance, is at least 8 and is above the score of every success
\* in at most 6 guesses
C15_FailurePenalty ==
    (SpecialReturned /\ ~fn_in.correct) =>
        /\ fn_in.measurement = 0 => fn_out = 8000
        /\ fn_out >= 8000
        /\ \A d \in Distances : d < fn_in.measurement =>
              calculate_special_score(FALSE, d, fn_in.game_type) < fn_out
        /\ \A g \in 1..6 :
              calculate_special_score(TRUE, g, fn_in.game_type) < fn_out

\* a failure 12500 miles off scored 16, above the failures less far off
C15_Witness ==
    /\ SpecialReturned
    /\ ~fn_in.correct
    /\ fn_in.measurement = 12500
    /\ fn_out = 16000

---------------------------------------------------------------------------
(* Properties of calculate_weighted_scores (specification SpecWeight) *)

WeightReturned == fn = "calculate_weighted_scores" /\ fpc = "returned"

\* C16: the list returned has the length of the input, is absent exactly
\* where the input is absent and holds input[i] * weight of the game
\* elsewhere; an all-absent input gives an all-absent output
C16_WeightingElementwise ==
    WeightReturned =>
        LET input  == fn_in.normalized_scores
            weight == GAMES[fn_in.game].weight
        IN  /\ Len(fn_out) = Len(input)
            /\ \A i \in DOMAIN input :
                  /\ (fn_out[i] = None) <=> (input[i] = None)
                  /\ input[i] # None =>
                        /\ fn_out[i].kind = "num"
                        /\ fn_out[i].v = input[i].v * weight
            /\ AllAbsent(input) => AllAbsent(fn_out)

\* a list with an absent entry and a present one was weighted for a game
\* whose weight is below 1
C16_Witness ==
    /\ WeightReturned
    /\ GAMES[fn_in.game].weight < 10
    /\ \E i \in DOMAIN fn_out : fn_out[i] = None
    /\ \E i \in DOMAIN fn_out :
          /\ fn_out[i].kind = "num"
          /\ fn_out[i].v # 0
          /\ fn_out[i].v = fn_in.normalized_scores[i].v * GAMES[fn_in.game].weight

---------------------------------------------------------------------------
(* Properties of a single-game day (specification SpecSingle) *)

SingleGameDay ==
    /\ Len(scores_data) = 1
    /\ scores_data[1].game \in StandardGames

\* the raw score of a player on the one game of the day
RawOf(player) == scores_data[1].raw_scores[RosterIndex(player)]

PresentPlayers ==
    {PLAYERS[i] : i \in {j \in Roster : scores_data[1].raw_scores[j] # None}}

LowestRaw(player) ==
    \A other \in PresentPlayers : RawOf(player).v <= RawOf(other).v

DistinctRaw ==
    \A p, q \in PresentPlayers : p # q => RawOf(p).v # RawOf(q).v

\* C18: on a day with one standard game, a call that returns ranks exactly
\* the participants, each once, in ascending order of their raw scores; the
\* winners are exactly the participants with the lowest raw score; with
\* pairwise distinct raw scores there is one winner and is_tie is false
C18_SingleGameDay ==
    (SingleGameDay /\ pc = "done") =>
        /\ RankedPlayers = PresentPlayers
        /\ Len(results.rankings) = Cardinality(PresentPlayers)
        /\ \A k, l \in DOMAIN results.rankings :
              k < l => RawOf(results.rankings[k].player).v
                          <= RawOf(results.rankings[l].player).v
        /\ Range(results.winners) = {p \in PresentPlayers : LowestRaw(p)}
        /\ Len(results.winners) = Cardinality(Range(results.winners))
        /\ results.is_tie <=> Len(results.winners) > 1
        /\ DistinctRaw =>
              /\ Len(results.winners) = 1
              /\ results.is_tie = FALSE
              /\ results.winner = results.winners[1]

\* the raw scores 6, 2, absent, 4 of Worldle were ranked 2, 4, 6 with the
\* player who scored 2 as the only winner
C18_Witness ==
    /\ SingleGameDay
    /\ pc = "done"
    /\ scores_data[1].game = "Worldle"
    /\ scores_data[1].raw_scores =
          <<Num(Milli(6)), Num(Milli(2)), None, Num(Milli(4))>>
    /\ [k \in DOMAIN results.rankings |-> results.rankings[k].player] =
          <<PLAYERS[2], PLAYERS[4], PLAYERS[1]>>
    /\ results.winners = <<PLAYERS[2]>>
    /\ results.is_tie = FALSE

---------------------------------------------------------------------------
(* Properties of validate_score_input (specification SpecValidate) *)

ValidateReturned == fn = "validate_score_input" /\ fpc = "returned"

\* the closed range a standard game declares
LowEnd(game)  == LowestScore(game)
HighEnd(game) == IF game = "Geogrid" THEN 900 ELSE 100

IsNumeric(score) == score.kind \in {"int", "float", "nan"}

InClosedRange(score, game) ==
    /\ score.kind \in {"int", "float"}
    /\ Milli(LowEnd(game)) <= score.v
    /\ score.v <= Milli(HighEnd(game))

IntegerWhereRequired(score, game) ==
    game = "Geogrid" => score.kind = "int"

\* the message names the game and the range of the game
NamesGameAndRange(message, game) ==
    /\ Len(message) = 2
    /\ message[1] = game
    /\ message[2] =
          IF game = "Geogrid" THEN " score must be an integer between 0 and 900"
          ELSE IF game = "Travle" THEN " score must be between -1 and 100"
          ELSE " score must be between 1 and 100"

\* C19: for a standard game the result is (True, "") if and only if the
\* value is numeric, an integer where the game requires one, and within
\* the closed range of the game; otherwise it is (False, message) and the
\* message names the game and its range
C19_ValidIffInRange ==
    (ValidateReturned /\ fn_in.game \in StandardGames) =>
        IF /\ IsNumeric(fn_in.score)
           /\ IntegerWhereRequired(fn_in.score, fn_in.game)
           /\ InClosedRange(fn_in.score, fn_in.game)
        THEN fn_out = Accept
        ELSE /\ fn_out.is_valid = FALSE
             /\ NamesGameAndRange(fn_out.message, fn_in.game)

\* C20: a game that is not in the registry is rejected with the
\* unknown-game message, whatever the value and whatever `correct`
C20_UnknownGameRejected ==
    (ValidateReturned /\ fn_in.game \notin DOMAIN GAMES) =>
        /\ fn_out.is_valid = FALSE
        /\ fn_out.message = <<"Unknown game: ", fn_in.game>>

\* the value 50, which every range holds, was rejected for an unknown game
C20_Witness ==
    /\ ValidateReturned
    /\ fn_in.game \notin DOMAIN GAMES
    /\ fn_in.score = IntValue(50)
    /\ fn_out.is_valid = FALSE
    /\ fn_out.message[1] = "Unknown game: "

\* C21: for a special game the result is (True, "") for every value and
\* every `correct`
C21_SpecialNotGated ==
    (/\ ValidateReturned
     /\ fn_in.game \in DOMAIN GAMES
     /\ GAMES[fn_in.game].type = "special") => fn_out = Accept

\* a string was accepted for NoBordle
C21_Witness ==
    /\ ValidateReturned
    /\ fn_in.game = "NoBordle"
    /\ fn_in.score = Str
    /\ fn_in.correct = "False"
    /\ fn_out = Accept

---------------------------------------------------------------------------
(* Properties of concurrent invocations (specification SpecConcurrent) *)

Returned(c) == calls[c].pc \in {"done", "raised"}

\* what the invocation returns when it runs alone
Alone(c) == calculate_daily_results(calls[c].scores_data)

AsAlone(c) ==
    /\ (calls[c].pc = "raised") <=> (Alone(c).exc # "")
    /\ calls[c].pc = "raised" => calls[c].exc = Alone(c).exc
    /\ calls[c].pc = "done" => calls[c].results = Alone(c).value

\* a step leaves the inputs, the other invocation and config.py alone
StepIsLocal ==
    /\ config' = config
    /\ \A c \in Invocations : calls'[c].scores_data = calls[c].scores_data
    /\ \E c \in Invocations :
          \A other \in Invocations \ {c} : calls'[other] = calls[other]

\* C22: however two invocations are interleaved, each returns what it
\* returns when run alone, and no step changes PLAYERS, GAMES, an input
\* or the other invocation
C22_NoCoordination ==
    /\ [](\A c \in DOMAIN calls : Returned(c) => AsAlone(c))
    /\ [][StepIsLocal]_vars

\* the second invocation ran to its end with a ranking of its own while
\* the first, on another input, was between two games
C22_Witness ==
    /\ DOMAIN calls = Invocations
    /\ calls[1].scores_data # calls[2].scores_data
    /\ calls[1].pc = "loop"
    /\ calls[1].idx = 2
    /\ Len(calls[1].scores_data) >= 2
    /\ calls[2].pc = "done"
    /\ Len(calls[2].results.rankings) >= 2
    /\ AsAlone(2)

\* the parts of a result
SameResult(r1, r2) ==
    /\ r1.raw_scores = r2.raw_scores
    /\ r1.normalized_unweighted = r2.normalized_unweighted
    /\ r1.normalized_weighted = r2.normalized_weighted
    /\ r1.total_scores = r2.total_scores
    /\ r1.rankings = r2.rankings
    /\ r1.winners = r2.winners
    /\ r1.winner = r2.winner
    /\ r1.is_tie = r2.is_tie

---------------------------------------------------------------------------
(* Properties of data_manager.py (specification SpecStore) *)

RowsOf(df, date) == SelectSeq(df, LAMBDA row : row.date = date)

RowsNotOf(df, date) == SelectSeq(df, LAMBDA row : row.date # date)

\* the calls that wrote the rows of `date`
WritesOf(date) ==
    {k \in DOMAIN history :
        /\ history[k].fn \in {"save_daily_results", "delete_date_data"}
        /\ history[k].args.date = date}

LatestWrite(date) ==
    CHOOSE k \in WritesOf(date) : \A l \in WritesOf(date) : l <= k

\* the latest call that wrote `date` was a save
Saved(date) ==
    /\ WritesOf(date) # {}
    /\ history[LatestWrite(date)].fn = "save_daily_results"

SavedResults(date) == history[LatestWrite(date)].args.results

LastCall == history[Len(history)]

\* C24: after any series of calls the file holds for a date the rows of
\* its latest save and nothing else, and saving once more what was saved
\* last leaves the file as it is
C24_IdempotentOverwrite ==
    /\ \A date \in DateSet :
          RowsOf(csv, date) =
              IF Saved(date)
              THEN save_daily_results(<<>>, date, SavedResults(date))
              ELSE <<>>
    /\ (history # <<>> /\ LastCall.fn = "save_daily_results") =>
          save_daily_results(csv, LastCall.args.date, LastCall.args.results)
              = csv

\* a date was saved, saved again with other results and then once more
\* with the same; the file holds the rows of the last save, once
C24_Witness ==
    /\ Len(history) = 3
    /\ \A k \in 1..3 :
          /\ history[k].fn = "save_daily_results"
          /\ history[k].args.date = Dates[1]
    /\ history[1].args.results # history[2].args.results
    /\ history[2].args.results = history[3].args.results
    /\ csv = save_daily_results(<<>>, Dates[1], history[3].args.results)
    /\ csv # <<>>

\* the player took part in a game of the result
TookPart(res, player) ==
    \E game \in DOMAIN res.raw_scores :
        res.raw_scores[game][RosterIndex(player)] # None

\* C25: the winner get_daily_winners reports for a saved date took part
\* that day and is one of the winners of the result saved
C25_ReportedWinner ==
    (history # <<>> /\ LastCall.fn = "get_daily_winners") =>
        \A k \in DOMAIN fn_out :
            Saved(fn_out[k].date) =>
                /\ TookPart(SavedResults(fn_out[k].date), fn_out[k].winner)
                /\ fn_out[k].winner
                      \in Range(SavedResults(fn_out[k].date).winners)

\* a save step
SaveStep == history' # history /\ fn' = "save_daily_results"

\* the games of the registry that `res` holds
SavedGames(res) == DOMAIN res.raw_scores \cap DOMAIN GAMES

\* C29: a save of date d keeps every row of the other dates, in place,
\* and leaves for d one row for each known game of the result and each
\* roster player, with the scores of the result and with empty score
\* fields where the player did not play the game
C29_SaveFrame ==
    [][SaveStep =>
        LET date == fn_in'.date
            res  == fn_in'.results
            now  == RowsOf(csv', date)
        IN  /\ fn_out' = TRUE
            /\ RowsNotOf(csv', date) = RowsNotOf(csv, date)
            /\ Len(now) = Cardinality(SavedGames(res)) * Len(PLAYERS)
            /\ \A game \in SavedGames(res), i \in Roster :
                  \E k \in DOMAIN now :
                      /\ now[k].game = game
                      /\ now[k].player = PLAYERS[i]
                      /\ now[k].raw_score = res.raw_scores[game][i]
                      /\ now[k].normalized_unweighted_score =
                            res.normalized_unweighted[game][i]
                      /\ now[k].normalized_weighted_score =
                            res.normalized_weighted[game][i]
                      /\ res.raw_scores[game][i] = None =>
                            /\ now[k].normalized_unweighted_score = None
                            /\ now[k].normalized_weighted_score = None
    ]_vars

\* one date was saved and then the other, with a player who missed a
\* game; the file holds the rows of both
C29_Witness ==
    /\ Len(history) = 2
    /\ history[1].fn = "save_daily_results"
    /\ history[2].fn = "save_daily_results"
    /\ history[1].args.date = Dates[2]
    /\ history[2].args.date = Dates[1]
    /\ RowsOf(csv, Dates[2]) =
          save_daily_results(<<>>, Dates[2], history[1].args.results)
    /\ Len(RowsOf(csv, Dates[1])) = 2 * Len(PLAYERS)
    /\ \E k \in DOMAIN csv :
          /\ csv[k].date = Dates[1]
          /\ csv[k].raw_score = None
          /\ csv[k].normalized_weighted_score = None

\* a delete step
DeleteStep == history' # history /\ fn' = "delete_date_data"

\* C30: a delete of date d drops every row of d and keeps the others, in
\* place; check_date_exists(d) is false afterwards; with no row of d the
\* file is left as it is
C30_DeleteFrame ==
    [][DeleteStep =>
        LET date == fn_in'.date
        IN  /\ fn_out' = TRUE
            /\ RowsOf(csv', date) = <<>>
            /\ RowsNotOf(csv', date) = RowsNotOf(csv, date)
            /\ check_date_exists(csv', date) = FALSE
            /\ RowsOf(csv, date) = <<>> => csv' = csv
    ]_vars

\* both dates were saved and one of them deleted; the file holds the
\* rows of the other
C30_Witness ==
    /\ Len(history) = 3
    /\ history[1].fn = "save_daily_results"
    /\ history[2].fn = "save_daily_results"
    /\ history[1].args.date # history[2].args.date
    /\ history[3].fn = "delete_date_data"
    /\ history[3].args.date = history[2].args.date
    /\ csv = save_daily_results(<<>>, history[1].args.date,
                                history[1].args.results)
    /\ csv # <<>>

---------------------------------------------------------------------------
(* Participation and unknown games (specification Spec) *)

\* roster positions present in a game outside the registry and in no game
\* of the registry
OnlyUnknown ==
    {i \in Roster :
        /\ \E k \in DOMAIN scores_data :
              /\ ~IsKnown(scores_data[k].game)
              /\ scores_data[k].raw_scores[i] # None
        /\ \A k \in DOMAIN scores_data :
              IsKnown(scores_data[k].game) =>
                  scores_data[k].raw_scores[i] = None}

\* C28: a player whose only present values are in games outside the
\* registry keeps a total of 0 and is in neither the ranking nor the
\* winners
C28_UnknownOnlyNotPlayed ==
    pc = "done" =>
        \A i \in OnlyUnknown :
            /\ results.total_scores[i] = 0
            /\ PLAYERS[i] \notin RankedPlayers
            /\ PLAYERS[i] \notin Range(results.winners)
            /\ results.winner # PLAYERS[i]

\* two players played an unknown game only; the other two were ranked,
\* one of them as the only winner
C28_Witness ==
    /\ pc = "done"
    /\ Cardinality(OnlyUnknown) = 2
    /\ Len(results.rankings) = 2
    /\ results.is_tie = FALSE
    /\ \A i \in OnlyUnknown : results.total_scores[i] = 0

---------------------------------------------------------------------------
(* Properties of daily_winners.py (specification SpecPlacements) *)

PlacementsSaved ==
    /\ fn \in {"save_daily_placements", "load_daily_winners"}
    /\ fpc = "returned"

\* the roster positions that played a game of the result
Played(res) ==
    {i \in Roster :
        \E game \in DOMAIN res.raw_scores : res.raw_scores[game][i] # None}

\* 1 plus the number of those who played with a strictly lower total
CompetitionRank(res, i) ==
    1 + Cardinality({j \in Played(res) :
                        res.total_scores[j] < res.total_scores[i]})

\* C27: the rows saved for the date are one per player who played, with
\* the competition rank of the player's total as placement; the players
\* placed first, which load_daily_winners reports, are the winners of the
\* result; a player who did not play has no row
C27_CompetitionRanks ==
    PlacementsSaved =>
        LET res  == fn_in.results
            rows == RowsOf(placements, fn_in.date)
        IN  /\ Len(rows) = Cardinality(Played(res))
            /\ \A i \in Played(res) :
                  \E k \in DOMAIN rows :
                      /\ rows[k].player = PLAYERS[i]
                      /\ rows[k].placement = CompetitionRank(res, i)
            /\ \A k \in DOMAIN rows :
                  RosterIndex(rows[k].player) \in Played(res)
            /\ {rows[k].player : k \in {l \in DOMAIN rows :
                                            rows[l].placement = 1}}
                  = Range(res.winners)
            /\ fn = "load_daily_winners" =>
                  {fn_out[k].winner : k \in {l \in DOMAIN fn_out :
                                          fn_out[l].date = fn_in.date}}
                      = Range(res.winners)

\* three players were placed 1, 2, 2 and a fourth 4, over rows saved
\* earlier for the date, and the winner was loaded
C27_Witness ==
    /\ fn = "load_daily_winners"
    /\ fpc = "returned"
    /\ Len(placements) = 4
    /\ \A k \in DOMAIN placements : placements[k].date = fn_in.date
    /\ [k \in DOMAIN placements |-> placements[k].placement] = <<1, 2, 2, 4>>
    /\ fn_out = <<[date |-> fn_in.date, winner |-> placements[1].player]>>

---------------------------------------------------------------------------
(* Properties of the daily submission page (specification SpecPage) *)

\* the run started by a click on the submit button, which is on the
\* screen only below results that were calculated and displayed
SubmitClicked ==
    /\ page.submit_shown
    /\ page.session.set
    /\ page' # page
    /\ page'.clicked = SubmitRecords

\* C26: the run started by a click on 'Submit to Official Records' calls
\* save_daily_results with the results calculated and their date
C26_SubmitSaves ==
    [][SubmitClicked =>
        /\ fn' = "save_daily_results"
        /\ fn_in' = [date    |-> page.session.current_date,
                     results |-> page.session.current_results]
        /\ csv' = save_daily_results(csv, page.session.current_date,
                                     page.session.current_results)
    ]_vars

====
